---- MODULE Spec2Model ----
(***************************************************************************)
(* Model of rbac-analyzer (src/main.go): the Analyzer walks the call       *)
(* expressions of every loaded file, records for each client-method call   *)
(* the static type of its resource argument, and finally prints the        *)
(* aggregate.                                                              *)
(***************************************************************************)
EXTENDS Integers, Sequences, FiniteSets, TLC

VARIABLES
    analyzer,            \* Analyzer: clientMethodCallCount, resourcePerListMethods
    displayResourcePath, \* Analyzer.displayResourcePath
    pc,                  \* position of main: "scan", "done", "panic", "logged"
    file,                \* the file being traversed: "none" before the first,
                         \* "parsed", or "failed" when it had parse errors
    visited,             \* the call expressions ast.Inspect has visited so far
    output               \* what logMap printed, one entry per resource

runVars == <<analyzer, displayResourcePath, pc, file, visited, output>>

VARIABLES
    fullName,            \* input of the name normalization
    once,                \* the name normalized once
    twice,               \* the name normalized twice
    npc                  \* "start", "once", "twice"

normVars == <<fullName, once, twice, npc>>

VARIABLES
    calls,               \* a sequence of matched (key, method) records
    perm,                \* a permutation of the indices of calls
    an1,                 \* an Analyzer recording calls in sequence order
    an2,                 \* an Analyzer recording calls in the order of perm
    i1,                  \* how many calls an1 has recorded
    i2                   \* how many calls an2 has recorded

recVars == <<calls, perm, an1, an2, i1, i2>>

vars == <<runVars, normVars, recVars>>

----------------------------------------------------------------------------
\* Bounds

MaxVisits == 2
MaxLen == 3
MaxRec == 3

----------------------------------------------------------------------------
\* Strings

Char(s, i) == SubSeq(s, i, i)

Digits == "0123456789"
UpperCase == "ABCDEFGHIJKLMNOPQRSTUVWXYZ"
LowerCase == "abcdefghijklmnopqrstuvwxyz"

IndexIn(c, s) ==
    IF \E i \in 1..Len(s) : Char(s, i) = c
    THEN CHOOSE i \in 1..Len(s) : Char(s, i) = c
    ELSE 0

IsUpper(c) == IndexIn(c, UpperCase) > 0
IsLowerOrDigit(c) == IndexIn(c, LowerCase) > 0 \/ IndexIn(c, Digits) > 0

LowerChar(c) ==
    IF IsUpper(c) THEN Char(LowerCase, IndexIn(c, UpperCase)) ELSE c

RECURSIVE ToLower(_)
ToLower(s) ==
    IF Len(s) = 0 THEN ""
    ELSE LowerChar(Char(s, 1)) \o ToLower(SubSeq(s, 2, Len(s)))

\* strings.Split(s, "."): the segments between the dots, at least one
RECURSIVE SplitFrom(_, _, _)
SplitFrom(s, i, cur) ==
    IF i > Len(s) THEN <<cur>>
    ELSE IF Char(s, i) = "." THEN <<cur>> \o SplitFrom(s, i + 1, "")
    ELSE SplitFrom(s, i + 1, cur \o Char(s, i))

Split(s) == SplitFrom(s, 1, "")

extractResourceName(name) ==
    LET parts == Split(name)
    IN  IF Len(parts) > 1 THEN parts[Len(parts)] ELSE name

\* The replacement template "${1}${2}" applied to one match
TemplateDash(g1, g2) == g1 \o "-" \o g2
Template(g1, g2) == g1 \o g2

\* ReplaceAllString of ([a-z0-9])([A-Z]): leftmost non-overlapping matches
RECURSIVE ReplaceAll(_, _)
ReplaceAll(s, i) ==
    IF i > Len(s) THEN ""
    ELSE IF i < Len(s) /\ IsLowerOrDigit(Char(s, i)) /\ IsUpper(Char(s, i + 1))
         THEN Template(Char(s, i), Char(s, i + 1)) \o ReplaceAll(s, i + 2)
         ELSE Char(s, i) \o ReplaceAll(s, i + 1)

getKubernetesResourceName(s) == ToLower(ReplaceAll(s, 1))

Normalize(name) == getKubernetesResourceName(extractResourceName(name))

----------------------------------------------------------------------------
\* Configuration

targetPackage == "sigs.k8s.io/controller-runtime/pkg/client"

methodArgMap ==
    [m \in {"Get", "Update", "Create", "Delete", "Patch"} |->
        IF m = "Get" THEN 3 ELSE 2]

----------------------------------------------------------------------------
\* What the loader resolved for the expressions of a file

\* types.Type of an expression; NoType is the nil Type of an expression the
\* type checker recorded nothing for
NoType == [kind |-> "nil", pkg |-> "", name |-> ""]
ContextType == [kind |-> "named", pkg |-> "context", name |-> "Context"]
KeyType ==
    [kind |-> "named", pkg |-> "k8s.io/apimachinery/pkg/types",
     name |-> "NamespacedName"]
DeploymentPtr ==
    [kind |-> "pointer", pkg |-> "k8s.io/api/apps/v1", name |-> "Deployment"]
PodPtr == [kind |-> "pointer", pkg |-> "k8s.io/api/core/v1", name |-> "Pod"]

\* Type.String() of a named type or of a pointer to one
TypeString(t) ==
    (IF t.kind = "pointer" THEN "*" ELSE "") \o t.pkg \o "." \o t.name

\* Argument expressions: their text (types.ExprString) and resolved type
CtxArg == [expr |-> "ctx", type |-> ContextType]
KeyArg == [expr |-> "key", type |-> KeyType]
ResourceArgs ==
    { [expr |-> "&appsv1.Deployment{}", type |-> DeploymentPtr],
      [expr |-> "&corev1.Pod{}", type |-> PodPtr],
      [expr |-> "obj", type |-> NoType] }

\* types.Object of the selector: nil, without package, or declared in a package
Objects ==
    { [isNil |-> TRUE, pkgIsNil |-> TRUE, path |-> ""],
      [isNil |-> FALSE, pkgIsNil |-> TRUE, path |-> ""],
      [isNil |-> FALSE, pkgIsNil |-> FALSE, path |-> "k8s.io/client-go/rest"],
      [isNil |-> FALSE, pkgIsNil |-> FALSE, path |-> targetPackage] }
TargetObject == [isNil |-> FALSE, pkgIsNil |-> FALSE, path |-> targetPackage]

InputMethods == {"Get", "Create"}

\* The full argument lists of a call of method m, and their proper prefixes
FullArgs(m) ==
    IF m = "Get" THEN { <<CtxArg, KeyArg, r>> : r \in ResourceArgs }
    ELSE { <<CtxArg, r>> : r \in ResourceArgs }
ShortArgs(m) == IF m = "Get" THEN <<CtxArg, KeyArg>> ELSE <<CtxArg>>

CallSite(isSel, name, obj, args) ==
    [isSel |-> isSel, name |-> name, obj |-> obj, args |-> args]

\* The call expressions a file may hold
CallSites ==
    \* callee is not a selector expression: f(ctx)
    { CallSite(FALSE, "", [isNil |-> TRUE, pkgIsNil |-> TRUE, path |-> ""],
               <<CtxArg>>) }
    \* a method of the client the table does not list
    \cup { CallSite(TRUE, "List", TargetObject, <<CtxArg, r>>) :
             r \in {a \in ResourceArgs : a.type = PodPtr} }
    \* a listed name whose object is unresolved or declared elsewhere
    \cup { CallSite(TRUE, "Get", o, <<CtxArg, KeyArg, r>>) :
             o \in Objects \ {TargetObject},
             r \in {a \in ResourceArgs : a.type = DeploymentPtr} }
    \* a listed method of the client, complete or with too few arguments
    \cup UNION { { CallSite(TRUE, m, TargetObject, a) :
                     a \in FullArgs(m) \cup {ShortArgs(m)} } :
                 m \in InputMethods }

----------------------------------------------------------------------------
\* Analyzer

NewAnalyzer ==
    [clientMethodCallCount |-> 0, resourcePerListMethods |-> [k \in {} |-> {}]]

addValueToMapFirstOnly(m, key, value) ==
    IF key \in DOMAIN m THEN m
    ELSE [k \in DOMAIN m \cup {key} |-> IF k = key THEN {value} ELSE m[k]]
addValueToMapOverwrite(m, key, value) ==
    [k \in DOMAIN m \cup {key} |-> IF k = key THEN {value} ELSE m[k]]
addValueToMap(m, key, value) ==
    LET m1 == IF key \in DOMAIN m THEN m
              ELSE [k \in DOMAIN m \cup {key} |->
                       IF k = key THEN {} ELSE m[k]]
    IN  [m1 EXCEPT ![key] = @ \cup {value}]

\* a.clientMethodCallCount++; a.addValueToMap(resourceName, methodName)
record(a, resourceName, methodName) ==
    [clientMethodCallCount |-> a.clientMethodCallCount + 1,
     resourcePerListMethods |->
        addValueToMap(a.resourcePerListMethods, resourceName, methodName)]

InTargetPackageAnyPath(obj) == ~obj.isNil /\ ~obj.pkgIsNil
InTargetPackage(obj) ==
    ~obj.isNil /\ ~obj.pkgIsNil /\ obj.path = targetPackage

\* call.Args[argIndex-1]
ResourceArgFirst(args, argIndex) == args[1]
ResourceArg(args, argIndex) == args[argIndex]

\* The outcome of processMethodCall: the analyzer after it, and whether it
\* panicked (index out of range on Args, or String() on a nil Type)
processMethodCall(a, site, methodName, argIndex) ==
    IF InTargetPackage(site.obj)
    THEN IF Len(site.args) < argIndex
         THEN [analyzer |-> a, panicked |-> TRUE]
         ELSE LET argType == ResourceArg(site.args, argIndex).type
              IN  IF argType = NoType
                  THEN [analyzer |-> a, panicked |-> TRUE]
                  ELSE [analyzer |-> record(a, TypeString(argType), methodName),
                        panicked |-> FALSE]
    ELSE [analyzer |-> a, panicked |-> FALSE]

\* The callback of ast.Inspect on one call expression
inspect(a, site) ==
    IF site.isSel /\ site.name \in DOMAIN methodArgMap
    THEN processMethodCall(a, site, site.name, methodArgMap[site.name])
    ELSE [analyzer |-> a, panicked |-> FALSE]

----------------------------------------------------------------------------
\* logMap

Perms(S) ==
    { f \in [1..Cardinality(S) -> S] :
        \A i, j \in 1..Cardinality(S) : f[i] = f[j] => i = j }

RECURSIVE Join(_, _)
Join(values, sep) ==
    IF Len(values) = 0 THEN ""
    ELSE IF Len(values) = 1 THEN values[1]
    ELSE values[1] \o sep \o Join(Tail(values), sep)

\* What logMap prints for one key, given the order the range over its value
\* set produced
Entry(key, values, withPath) ==
    LET kubernetesResourceName ==
            getKubernetesResourceName(extractResourceName(key))
    IN  [values |-> values,
         text |->
            IF withPath
            THEN "Full Resource Name: " \o key \o "\nResource: "
                 \o kubernetesResourceName \o "\nMethods: ["
                 \o Join(values, ", ") \o "]\n"
            ELSE "Resource: " \o kubernetesResourceName \o "\nMethods: ["
                 \o Join(values, ", ") \o "]\n"]

\* Every output logMap can produce: map iteration order is unspecified, for
\* the keys and for each value set
Outputs(m, withPath) ==
    { [i \in 1..Cardinality(DOMAIN m) |->
          Entry(keyOrder[i], valueOrder[keyOrder[i]], withPath)] :
      keyOrder \in Perms(DOMAIN m),
      valueOrder \in { f \in [DOMAIN m -> UNION { Perms(m[k]) : k \in DOMAIN m }] :
                         \A k \in DOMAIN m : f[k] \in Perms(m[k]) } }

----------------------------------------------------------------------------
\* The analysis run: main

NormIdle == fullName = "" /\ once = "" /\ twice = "" /\ npc = "idle"
RecIdle ==
    /\ calls = << >> /\ perm = << >>
    /\ an1 = NewAnalyzer /\ an2 = NewAnalyzer /\ i1 = 0 /\ i2 = 0
RunIdle ==
    /\ analyzer = NewAnalyzer /\ displayResourcePath = FALSE /\ pc = "idle"
    /\ file = "none" /\ visited = << >> /\ output = << >>

InitRun ==
    /\ analyzer = NewAnalyzer
    /\ displayResourcePath \in BOOLEAN
    /\ pc = "scan"
    /\ file = "none"
    /\ visited = << >>
    /\ output = << >>

Init == InitRun /\ NormIdle /\ RecIdle

\* The loops over pkgs and pkg.Syntax move on to the next file; the loader
\* hands over the files with parse errors too, as far as they were parsed
NextFile ==
    /\ pc = "scan"
    /\ file' \in {"parsed", "failed"}
    /\ UNCHANGED <<analyzer, displayResourcePath, pc, visited, output>>
    /\ UNCHANGED <<normVars, recVars>>

\* ast.Inspect reaches the next call expression of the current file
VisitCall ==
    /\ pc = "scan"
    /\ file # "none"
    /\ Len(visited) < MaxVisits
    /\ \E site \in CallSites :
         LET r == inspect(analyzer, site)
         IN  /\ visited' = Append(visited, [failed |-> (file = "failed"), site |-> site])
             /\ analyzer' = r.analyzer
             /\ pc' = IF r.panicked THEN "panic" ELSE "scan"
    /\ UNCHANGED <<displayResourcePath, file, output>>
    /\ UNCHANGED <<normVars, recVars>>

\* findClientMethodCalls returns; main logs "Analysis complete"
Return ==
    /\ pc = "scan"
    /\ pc' = "done"
    /\ UNCHANGED <<analyzer, displayResourcePath, file, visited, output>>
    /\ UNCHANGED <<normVars, recVars>>

LogMap ==
    /\ pc = "done"
    /\ output' \in Outputs(analyzer.resourcePerListMethods, displayResourcePath)
    /\ pc' = "logged"
    /\ UNCHANGED <<analyzer, displayResourcePath, file, visited>>
    /\ UNCHANGED <<normVars, recVars>>

Next == NextFile \/ VisitCall \/ Return \/ LogMap

Spec == Init /\ [][Next]_vars

----------------------------------------------------------------------------
\* The name normalization of logMap, applied once and once more

Alphabet == {"S", "c", "V", "2", "."}

RECURSIVE StringsOfLen(_)
StringsOfLen(n) ==
    IF n = 0 THEN {""}
    ELSE { s \o c : s \in StringsOfLen(n - 1), c \in Alphabet }

Names ==
    UNION { StringsOfLen(n) : n \in 0..MaxLen }
    \cup { "StorageCluster", "VolumeV2", "v1.StorageCluster",
           TypeString(DeploymentPtr), TypeString(PodPtr) }

InitNorm ==
    /\ fullName \in Names
    /\ once = ""
    /\ twice = ""
    /\ npc = "start"

NormalizeKey ==
    /\ npc = "start"
    /\ once' = getKubernetesResourceName(extractResourceName(fullName))
    /\ npc' = "once"
    /\ UNCHANGED <<fullName, twice>>
    /\ UNCHANGED <<runVars, recVars>>

NormalizeAgain ==
    /\ npc = "once"
    /\ twice' = getKubernetesResourceName(extractResourceName(once))
    /\ npc' = "twice"
    /\ UNCHANGED <<fullName, once>>
    /\ UNCHANGED <<runVars, recVars>>

NextNorm == NormalizeKey \/ NormalizeAgain

NormInit == InitNorm /\ RunIdle /\ RecIdle

SpecNorm == NormInit /\ [][NextNorm]_vars

----------------------------------------------------------------------------
\* Two analyzers recording the same matched calls in two orders

RecKeys == {TypeString(DeploymentPtr), TypeString(PodPtr)}
RecMethods == {"Get", "Create", "Patch"}
RecCalls == [key : RecKeys, method : RecMethods]

InitRec ==
    /\ \E n \in 0..MaxRec : calls \in [1..n -> RecCalls]
    /\ perm \in Perms(DOMAIN calls)
    /\ an1 = NewAnalyzer
    /\ an2 = NewAnalyzer
    /\ i1 = 0
    /\ i2 = 0

Record1 ==
    /\ i1 < Len(calls)
    /\ i1' = i1 + 1
    /\ an1' = record(an1, calls[i1 + 1].key, calls[i1 + 1].method)
    /\ UNCHANGED <<calls, perm, an2, i2>>
    /\ UNCHANGED <<runVars, normVars>>

Record2 ==
    /\ i2 < Len(calls)
    /\ i2' = i2 + 1
    /\ an2' = record(an2, calls[perm[i2 + 1]].key, calls[perm[i2 + 1]].method)
    /\ UNCHANGED <<calls, perm, an1, i1>>
    /\ UNCHANGED <<runVars, normVars>>

NextRec == Record1 \/ Record2

RecInit == InitRec /\ RunIdle /\ NormIdle

SpecRec == RecInit /\ [][NextRec]_vars

----------------------------------------------------------------------------
\* Vocabulary of the properties

map == analyzer.resourcePerListMethods
count == analyzer.clientMethodCallCount

Tracked == {"Get", "Update", "Create", "Delete", "Patch"}
ConfiguredIndex(m) == IF m = "Get" THEN 3 ELSE 2

LastSite == visited[Len(visited)].site

\* callee declared in the target namespace
DeclaredInTarget(site) ==
    /\ site.isSel
    /\ ~site.obj.isNil
    /\ ~site.obj.pkgIsNil
    /\ site.obj.path = "sigs.k8s.io/controller-runtime/pkg/client"

\* target namespace, known method, sufficient arity
Matched(site) ==
    /\ DeclaredInTarget(site)
    /\ site.name \in Tracked
    /\ Len(site.args) >= ConfiguredIndex(site.name)

\* a tracked method of the client called with too few arguments
ShortCall(site) ==
    /\ DeclaredInTarget(site)
    /\ site.name \in Tracked
    /\ Len(site.args) < ConfiguredIndex(site.name)

\* a matched call whose designated argument has no resolved type
Unresolved(site) ==
    /\ Matched(site)
    /\ site.args[ConfiguredIndex(site.name)].type.kind = "nil"

\* untracked name, or tracked name on an unresolved or foreign symbol
Unrelated(site) ==
    \/ ~site.isSel
    \/ site.name \notin Tracked
    \/ site.obj.isNil
    \/ site.obj.path # "sigs.k8s.io/controller-runtime/pkg/client"

\* pointer- and package-qualified rendering of a type
Canonical(t) ==
    IF t.kind = "pointer" THEN "*" \o t.pkg \o "." \o t.name
    ELSE t.pkg \o "." \o t.name

DesignatedType(site) == site.args[ConfiguredIndex(site.name)].type

PairsOf(m) == { p \in (DOMAIN m) \X Tracked : p[2] \in m[p[1]] }

\* byte order of two strings over digits and letters
Ordinal(c) == IndexIn(c, Digits \o UpperCase \o LowerCase)
RECURSIVE StrLess(_, _)
StrLess(a, b) ==
    IF Len(b) = 0 THEN FALSE
    ELSE IF Len(a) = 0 THEN TRUE
    ELSE IF Char(a, 1) = Char(b, 1)
         THEN StrLess(SubSeq(a, 2, Len(a)), SubSeq(b, 2, Len(b)))
         ELSE Ordinal(Char(a, 1)) < Ordinal(Char(b, 1))

StrictlySorted(values) ==
    \A i \in 1..Len(values) - 1 : StrLess(values[i], values[i + 1])

\* the analyzer after a run over the given visits alone
RECURSIVE RunOver(_)
RunOver(visits) ==
    IF Len(visits) = 0 THEN NewAnalyzer
    ELSE inspect(RunOver(SubSeq(visits, 1, Len(visits) - 1)),
                 visits[Len(visits)].site).analyzer

IsParsed(v) == ~v.failed

\* the aggregate a multiset of (key, method) records determines
KeysOf(recs) == { recs[i].key : i \in DOMAIN recs }
MethodsOf(recs, r) == { recs[i].method : i \in { j \in DOMAIN recs : recs[j].key = r } }
Aggregates(a, recs) ==
    /\ a.clientMethodCallCount = Len(recs)
    /\ DOMAIN a.resourcePerListMethods = KeysOf(recs)
    /\ \A r \in KeysOf(recs) : a.resourcePerListMethods[r] = MethodsOf(recs, r)

----------------------------------------------------------------------------
\* Properties

\* C1: the counter equals the number of visited call sites that are declared
\* in the target namespace, have a tracked method name and have at least
\* argIndex arguments, duplicates of one (resource, method) pair included.
C1_CounterCountsMatchedSites ==
    count = Cardinality({ i \in 1..Len(visited) : Matched(visited[i].site) })

\* C2: every (key, method) pair of the mapping comes from a visited matched
\* call of that method whose argument at the configured position (3rd for
\* Get, 2nd otherwise) has the key as its pointer- and package-qualified type
\* string, and every matched call that was recorded is found under that key;
\* a *appsv1.Deployment argument gives "*k8s.io/api/apps/v1.Deployment".
C2_KeyIsTypeOfConfiguredArgument ==
    /\ \A p \in PairsOf(map) :
         \E i \in 1..Len(visited) :
            /\ Matched(visited[i].site)
            /\ visited[i].site.name = p[2]
            /\ Canonical(DesignatedType(visited[i].site)) = p[1]
    /\ \A i \in 1..Len(visited) :
         (Matched(visited[i].site) /\ ~Unresolved(visited[i].site)) =>
            /\ Canonical(DesignatedType(visited[i].site)) \in DOMAIN map
            /\ visited[i].site.name
                 \in map[Canonical(DesignatedType(visited[i].site))]
            /\ DesignatedType(visited[i].site) = DeploymentPtr =>
                 visited[i].site.name \in map["*k8s.io/api/apps/v1.Deployment"]

C2_Witness ==
    /\ Len(visited) = 2
    /\ Matched(visited[1].site) /\ visited[1].site.name = "Get"
    /\ Matched(visited[2].site) /\ visited[2].site.name = "Create"
    /\ DOMAIN map = {"*k8s.io/api/apps/v1.Deployment", "*k8s.io/api/core/v1.Pod"}
    /\ map["*k8s.io/api/apps/v1.Deployment"] = {"Get"}
    /\ map["*k8s.io/api/core/v1.Pod"] = {"Create"}

\* C3: recording the same matched calls in two different orders gives the
\* same mapping and the same counter, and the set of an identity r is exactly
\* the methods m of which at least one call (r, m) was recorded.
C3_RecordCommutes ==
    /\ Aggregates(an1, SubSeq(calls, 1, i1))
    /\ Aggregates(an2, [k \in 1..i2 |-> calls[perm[k]]])
    /\ (i1 = Len(calls) /\ i2 = Len(calls)) => an1 = an2

C3_Witness ==
    /\ Len(calls) = 3 /\ i1 = 3 /\ i2 = 3
    /\ perm = <<3, 1, 2>>
    /\ calls[1] = calls[3]
    /\ calls[2].key = calls[1].key /\ calls[2].method # calls[1].method
    /\ an1.clientMethodCallCount = 3
    /\ an2.resourcePerListMethods[calls[1].key] = {calls[1].method, calls[2].method}

\* C4: visiting a call whose method name is not tracked, or whose tracked
\* name belongs to an unresolved symbol or to a symbol of another package,
\* leaves the counter and the mapping unchanged.
C4_UnrelatedCallChangesNothing ==
    [][ (Len(visited') = Len(visited) + 1
            /\ Unrelated(visited'[Len(visited')].site))
        => analyzer' = analyzer ]_vars

C4_Witness ==
    /\ Len(visited) = 2
    /\ Matched(visited[1].site)
    /\ LastSite.name = "Get" /\ LastSite.obj.path = "k8s.io/client-go/rest"
    /\ count = 1
    /\ pc = "scan"

\* C5: a tracked client call with fewer arguments than argIndex is discarded
\* silently: no failure is raised and the run continues.
C5_ShortCallIsDiscarded ==
    (Len(visited) > 0 /\ ShortCall(LastSite)) =>
        /\ pc # "panic"
        /\ analyzer = RunOver(SubSeq(visited, 1, Len(visited) - 1))

\* C6: a matched call whose designated argument has no resolved type does
\* not fail the run; it is counted and recorded under the text of the
\* argument expression.
C6_UnresolvedTypeFallsBackToText ==
    (Len(visited) > 0 /\ Unresolved(LastSite)) =>
        /\ pc # "panic"
        /\ LastSite.args[ConfiguredIndex(LastSite.name)].expr \in DOMAIN map
        /\ LastSite.name
             \in map[LastSite.args[ConfiguredIndex(LastSite.name)].expr]
        /\ count =
             RunOver(SubSeq(visited, 1, Len(visited) - 1)).clientMethodCallCount + 1

\* C7: when the traversal has returned, the counter and the mapping equal
\* those of a run over the files without parse errors alone.
C7_FailedUnitIsSkipped ==
    pc \in {"done", "logged"} => analyzer = RunOver(SelectSeq(visited, IsParsed))

\* C8: the method list logMap prints for every resource is in sorted order
\* and holds each method once.
C8_MethodListIsSorted ==
    pc = "logged" =>
        \A i \in DOMAIN output : StrictlySorted(output[i].values)

\* C9: normalizing a normalized name changes nothing; the normalized name is
\* the lowercased segment after the last '.', with no separator inserted:
\* "StorageCluster" gives "storagecluster", "VolumeV2" gives "volumev2".
C9_NormalizeIdempotent ==
    /\ npc = "twice" => twice = once
    /\ npc \in {"once", "twice"} =>
         /\ once = ToLower(Split(fullName)[Len(Split(fullName))])
         /\ Len(once) = Len(Split(fullName)[Len(Split(fullName))])
         /\ fullName = "StorageCluster" => once = "storagecluster"
         /\ fullName = "VolumeV2" => once = "volumev2"

C9_Witness ==
    /\ npc = "twice"
    /\ fullName = "v1.StorageCluster"
    /\ once = "storagecluster"
    /\ twice = "storagecluster"

\* a well-formed aggregate, and one aggregate containing another
WellFormed(a) ==
    /\ \A r \in DOMAIN a.resourcePerListMethods :
         a.resourcePerListMethods[r] # {}
    /\ a.clientMethodCallCount >= Cardinality(PairsOf(a.resourcePerListMethods))
Grows(a, b) ==
    /\ \A r \in DOMAIN a.resourcePerListMethods :
         /\ r \in DOMAIN b.resourcePerListMethods
         /\ a.resourcePerListMethods[r] \subseteq b.resourcePerListMethods[r]
    /\ b.clientMethodCallCount >= a.clientMethodCallCount
\* C10: every step keeps each (identity, method) pair and each identity key
\* and never decreases the counter; in every state each key has a non-empty
\* method set and the counter is at least the number of pairs.
C10_AggregateOnlyGrows ==
    /\ WellFormed(analyzer)
    /\ [][Grows(analyzer, analyzer') /\ WellFormed(analyzer')]_vars

C10_Witness ==
    /\ Len(visited) = 2
    /\ visited[1].site = visited[2].site
    /\ count = 2
    /\ Cardinality(PairsOf(map)) = 1

====
